---- MODULE Spec2Model ----
(***************************************************************************)
(* Turn state machine of the total-based blackjack controller              *)
(* (blackjack/controllers/game_controller.py, class GameController).       *)
(* Money is counted in 1/Unit of a currency unit so that wager / 2 and     *)
(* wager * 3 / 2 are exact for every amount the bounded game can produce.  *)
(***************************************************************************)
EXTENDS Integers, Sequences, FiniteSets, TLC

VARIABLES
    pc,           \* position of the controller inside play()
    turn,         \* GameController.turn
    max_turns,    \* GameController.max_turns (NoCap stands for None)
    bankroll,     \* gambler.bankroll
    auto_wager,   \* gambler.auto_wager
    hands,        \* gambler.hands: sequence of gambler hands
    dealer_hand,  \* dealer.hand: <<>> for None, else <<hand>>
    last,         \* history: the operation performed by the last step
    token,        \* history: last override token handled in this turn
    bank0,        \* history: bankroll when the turn started
    settled,      \* history: settle_up has run in this turn
    stray,        \* history: the strategy answered Double when not offered
    dealt,        \* history: the gambler total dealt in this turn, 0 before
    activity,     \* len(GameController.activity): messages logged in this turn
    metrics,      \* what the metric tracker has received so far, as counts
    pin_state,    \* GPIO.py: level of every pin that was set up
    gpio_pc,      \* GPIO.py: "idle", or "sleep" inside trigger_command
    gpio_impl,    \* which trigger_command ran last: "GPIO" or "MockGPIO"
    command,      \* the command of the current or last trigger_command call
    gpio_calls    \* the output() calls made by that call, in order

gpio_vars == <<pin_state, gpio_pc, gpio_impl, command, gpio_calls>>

game_vars == <<pc, turn, max_turns, bankroll, auto_wager, hands, dealer_hand,
               last, token, bank0, settled, stray, dealt, activity, metrics>>

vars == <<game_vars, gpio_vars>>

----------------------------------------------------------------------------
(* Bounds of the model *)

TurnBound == 2

RECURSIVE Pow2(_)
Pow2(n) == IF n = 0 THEN 1 ELSE 2 * Pow2(n - 1)

\* one currency unit; each turn halves an amount at most once
Unit == Pow2(TurnBound)

NoCap == -1
MaxTurnsOptions == {NoCap, 0, 1, 2}

StartBankrolls == {2 * Unit}
StartWagers == {Unit, 2 * Unit}
WagerRequests == {0, Unit, 2 * Unit, 8 * Unit}

AceCard == [rank |-> "A", value |-> 11]
UpCards == {AceCard, [rank |-> "K", value |-> 10], [rank |-> "6", value |-> 6]}

GamblerTotalInputs == {3, 12, 18, 21, 22}
DealerTotalInputs == {5, 18, 21, 22}

Tokens == {"BLACKJACK", "PUSH", "WIN", "BUST", "SURRENDER"}
StatusInputs == Tokens \cup {"NONE", "JUNK"}

Actions == {"Hit", "Stand", "Double", "Split", "Surrender", "Other"}

\* bound on the messages of one turn: Split is not asked for beyond it
MaxLog == 8

MinTotal == 4
MaxTotal == 21

----------------------------------------------------------------------------
(* Card / Hand model *)

RECURSIVE SumValues(_)
SumValues(cards) ==
    IF cards = <<>> THEN 0 ELSE Head(cards).value + SumValues(Tail(cards))

RECURSIVE CountAces(_)
CountAces(cards) ==
    IF cards = <<>> THEN 0
    ELSE (IF Head(cards).rank = "A" THEN 1 ELSE 0) + CountAces(Tail(cards))

\* highest total <= 21 if one exists, else the minimum possible total
final_total(cards) ==
    LET s == SumValues(cards)
        n == CountAces(cards)
        cands == {s - 10 * k : k \in 0..n}
        ok == {c \in cands : c <= 21}
    IN  IF ok # {} THEN CHOOSE c \in ok : \A d \in ok : d <= c
        ELSE s - 10 * n

is_blackjack(hand) == Len(hand.cards) = 2 /\ final_total(hand.cards) = 21

create_dummy_hand(total) == <<[rank |-> "Total", value |-> total]>>

GamblerHand(cards) ==
    [cards |-> cards, wager |-> 0, insurance |-> 0, earnings |-> 0,
     status |-> "Pending", outcome |-> "None", lost_insurance |-> FALSE,
     hand_number |-> 1]

DealerHand(cards) == [cards |-> cards, status |-> "Pending"]

is_showing_ace == dealer_hand[1].cards[1].rank = "A"
is_showing_face_card == dealer_hand[1].cards[1].value = 10

----------------------------------------------------------------------------
(* Gambler account *)

can_place_wager(amount, bank) == amount <= bank
can_place_auto_wager == can_place_wager(auto_wager, bankroll)
can_place_insurance_wager(hand, bank) == can_place_wager(hand.wager \div 2, bank)
is_finished == bankroll = 0 \/ auto_wager = 0

\* place_hand_wager: the accumulated wager of the hand
place_hand_wager(amount, hand) == [hand EXCEPT !.wager = @ + amount]

----------------------------------------------------------------------------
(* Controller helpers *)

set_hand_status(hand, status) == [hand EXCEPT !.status = status]

\* variant: the outcome is recorded without the Pending -> Played transition
set_hand_outcome_keep(hand, outcome) == [hand EXCEPT !.outcome = outcome]

set_hand_outcome(hand, outcome) ==
    [hand EXCEPT !.outcome = outcome,
                 !.status = IF @ = "Pending" THEN "Played" ELSE @]

Truthy(n) == n # NoCap /\ n # 0

play_condition ==
    IF is_finished THEN FALSE
    ELSE IF Truthy(max_turns) THEN turn < max_turns
    ELSE TRUE

\* variant: a token outside the list is taken for BUST
check_for_status_text_loose(response) ==
    IF response \in Tokens THEN response
    ELSE IF response = "NONE" THEN "NONE" ELSE "BUST"

check_for_status_text(response) ==
    IF response \in Tokens THEN response ELSE "NONE"

----------------------------------------------------------------------------
(* Payout and settlement.  A settlement state is [hand, bankroll]. *)

Amount(hand, payout_type, odds) ==
    CASE payout_type = "winning_wager" -> (hand.wager * odds[1]) \div odds[2]
      [] payout_type = "wager_reclaim" -> hand.wager
      [] payout_type = "winning_insurance" -> (hand.insurance * odds[1]) \div odds[2]
      [] payout_type = "insurance_reclaim" -> hand.insurance

\* variant: the bankroll is credited but hand.earnings is not accumulated
perform_hand_payout_noearn(st, payout_type, odds) ==
    [hand |-> st.hand,
     bankroll |-> st.bankroll + Amount(st.hand, payout_type, odds)]

\* hand.earnings += amount; gambler.payout(amount)
perform_hand_payout(st, payout_type, odds) ==
    LET amount == Amount(st.hand, payout_type, odds)
    IN  [hand |-> [st.hand EXCEPT !.earnings = @ + amount],
         bankroll |-> st.bankroll + amount]

\* variant: a winning insurance wager also reclaims the hand wager
pay_out_hand_ins(st, payout_type) ==
    CASE payout_type = "wager" ->
           perform_hand_payout(perform_hand_payout(st, "winning_wager", <<1, 1>>),
                               "wager_reclaim", <<>>)
      [] payout_type = "blackjack" ->
           perform_hand_payout(perform_hand_payout(st, "winning_wager", <<3, 2>>),
                               "wager_reclaim", <<>>)
      [] payout_type = "insurance" ->
           perform_hand_payout(
               perform_hand_payout(
                   perform_hand_payout(st, "winning_insurance", <<2, 1>>),
                   "insurance_reclaim", <<>>),
               "wager_reclaim", <<>>)
      [] payout_type = "push" ->
           perform_hand_payout(st, "wager_reclaim", <<>>)

pay_out_hand(st, payout_type) ==
    CASE payout_type = "wager" ->
           perform_hand_payout(perform_hand_payout(st, "winning_wager", <<1, 1>>),
                               "wager_reclaim", <<>>)
      [] payout_type = "blackjack" ->
           perform_hand_payout(perform_hand_payout(st, "winning_wager", <<3, 2>>),
                               "wager_reclaim", <<>>)
      [] payout_type = "insurance" ->
           perform_hand_payout(perform_hand_payout(st, "winning_insurance", <<2, 1>>),
                               "insurance_reclaim", <<>>)
      [] payout_type = "push" ->
           perform_hand_payout(st, "wager_reclaim", <<>>)

\* variant: equal totals go to the dealer
determine_hand_outcome_tie(hand, dhand) ==
    IF hand.status = "Busted" THEN set_hand_outcome(hand, "Loss")
    ELSE IF dhand.status = "Busted" THEN set_hand_outcome(hand, "Win")
    ELSE IF final_total(hand.cards) > final_total(dhand.cards)
         THEN set_hand_outcome(hand, "Win")
         ELSE set_hand_outcome(hand, "Loss")

determine_hand_outcome(hand, dhand) ==
    IF hand.status = "Busted" THEN set_hand_outcome(hand, "Loss")
    ELSE IF dhand.status = "Busted" THEN set_hand_outcome(hand, "Win")
    ELSE LET hand_total == final_total(hand.cards)
             dealer_hand_total == final_total(dhand.cards)
         IN  IF hand_total > dealer_hand_total THEN set_hand_outcome(hand, "Win")
             ELSE IF hand_total = dealer_hand_total THEN set_hand_outcome(hand, "Push")
             ELSE set_hand_outcome(hand, "Loss")

\* variant: every Win is paid 1:1, whatever the status or the total
settle_hand_plain(hand0, bank, dhand) ==
    LET hand == IF hand0.outcome = "None"
                THEN determine_hand_outcome(hand0, dhand) ELSE hand0
        st == [hand |-> hand, bankroll |-> bank]
    IN  CASE hand.outcome = "Win" -> pay_out_hand(st, "wager")
          [] hand.outcome = "Push" -> pay_out_hand(st, "push")
          [] hand.outcome = "Even Money" -> pay_out_hand(st, "wager")
          [] hand.outcome = "Insurance Win" -> pay_out_hand(st, "insurance")
          [] hand.outcome = "Loss" -> st
          [] hand.outcome = "Surrender" -> st

settle_hand(hand0, bank, dhand) ==
    LET hand == IF hand0.outcome = "None"
                THEN determine_hand_outcome(hand0, dhand) ELSE hand0
        st == [hand |-> hand, bankroll |-> bank]
    IN  CASE hand.outcome = "Win" ->
               IF hand.status = "Blackjack" \/ final_total(hand.cards) = 21
               THEN pay_out_hand(st, "blackjack")
               ELSE pay_out_hand(st, "wager")
          [] hand.outcome = "Push" -> pay_out_hand(st, "push")
          [] hand.outcome = "Even Money" -> pay_out_hand(st, "wager")
          [] hand.outcome = "Insurance Win" -> pay_out_hand(st, "insurance")
          [] hand.outcome = "Loss" -> st
          [] hand.outcome = "Surrender" -> st

\* settle_up: fold settle_hand over the gambler's hands, threading the bankroll
RECURSIVE settle_up(_, _, _)
settle_up(hs, bank, dhand) ==
    IF hs = <<>> THEN [hands |-> <<>>, bankroll |-> bank]
    ELSE LET st == settle_hand(Head(hs), bank, dhand)
             rest == settle_up(Tail(hs), st.bankroll, dhand)
         IN  [hands |-> <<st.hand>> \o rest.hands, bankroll |-> rest.bankroll]

----------------------------------------------------------------------------
(* Status override *)

\* variant: the status of the WIN branch copied from the BUST branch
OverrideStatus_copied(status_text) ==
    CASE status_text = "BLACKJACK" -> "Blackjack"
      [] status_text = "PUSH" -> "Stood"
      [] status_text = "WIN" -> "Busted"
      [] status_text = "BUST" -> "Busted"
      [] status_text = "SURRENDER" -> "Surrendered"

OverrideStatus(status_text) ==
    CASE status_text = "BLACKJACK" -> "Blackjack"
      [] status_text = "PUSH" -> "Stood"
      [] status_text = "WIN" -> "Stood"
      [] status_text = "BUST" -> "Busted"
      [] status_text = "SURRENDER" -> "Surrendered"

\* variant: PUSH copied from the WIN branch
OverrideOutcome_copied(status_text) ==
    CASE status_text = "BLACKJACK" -> "Win"
      [] status_text = "PUSH" -> "Win"
      [] status_text = "WIN" -> "Win"
      [] status_text = "BUST" -> "Loss"
      [] status_text = "SURRENDER" -> "Surrender"

OverrideOutcome(status_text) ==
    CASE status_text = "BLACKJACK" -> "Win"
      [] status_text = "PUSH" -> "Push"
      [] status_text = "WIN" -> "Win"
      [] status_text = "BUST" -> "Loss"
      [] status_text = "SURRENDER" -> "Surrender"

\* variant: the placeholder hand is created without placing the auto-wager
handle_immediate_status_nowager(status_text) ==
    LET hs0 == IF hands = <<>> THEN <<GamblerHand(<<>>)>> ELSE hands
        hand == set_hand_outcome(
                    set_hand_status(hs0[1], OverrideStatus(status_text)),
                    OverrideOutcome(status_text))
    IN  [hands |-> [hs0 EXCEPT ![1] = hand],
         bankroll |-> bankroll,
         dealer_hand |-> IF dealer_hand = <<>>
                         THEN <<DealerHand(<<[rank |-> "Dummy", value |-> 10]>>)>>
                         ELSE dealer_hand]

\* the gambler's hands, bankroll and the dealer hand after the override
handle_immediate_status(status_text) ==
    LET created == hands = <<>>
        hs0 == IF created
               THEN <<place_hand_wager(auto_wager, GamblerHand(<<>>))>>
               ELSE hands
        bank == IF created THEN bankroll - auto_wager ELSE bankroll
        hand == set_hand_outcome(
                    set_hand_status(hs0[1], OverrideStatus(status_text)),
                    OverrideOutcome(status_text))
    IN  [hands |-> [hs0 EXCEPT ![1] = hand],
         bankroll |-> bank,
         dealer_hand |-> IF dealer_hand = <<>>
                         THEN <<DealerHand(<<[rank |-> "Dummy", value |-> 10]>>)>>
                         ELSE dealer_hand]

----------------------------------------------------------------------------
(* The GPIO command trigger (blackjack/GPIO.py, GPIO/gpio_mock.py)         *)

LOW == 0
HIGH == 1

HIT_PIN == 17
STAND_REBET_PIN == 18
DOUBLE_DOWN_PIN == 22
SPLIT_DEAL_PIN == 23
SURRENDER_PIN == 24

\* a command is a string, here the sequence of its characters
hit == <<"h", "i", "t">>
stand == <<"s", "t", "a", "n", "d">>
rebet == <<"r", "e", "b", "e", "t">>
double == <<"d", "o", "u", "b", "l", "e">>
split == <<"s", "p", "l", "i", "t">>
deal == <<"d", "e", "a", "l">>
surrender == <<"s", "u", "r", "r", "e", "n", "d", "e", "r">>

\* pairs of a lower-case letter and its upper-case form
CasePairs ==
    {<<"a", "A">>, <<"b", "B">>, <<"d", "D">>, <<"e", "E">>, <<"h", "H">>,
     <<"i", "I">>, <<"l", "L">>, <<"n", "N">>, <<"o", "O">>, <<"p", "P">>,
     <<"r", "R">>, <<"s", "S">>, <<"t", "T">>, <<"u", "U">>, <<"x", "X">>}

lower_char(c) ==
    IF \E p \in CasePairs : p[2] = c
    THEN (CHOOSE p \in CasePairs : p[2] = c)[1]
    ELSE c

upper_char(c) ==
    IF \E p \in CasePairs : p[1] = c
    THEN (CHOOSE p \in CasePairs : p[1] = c)[2]
    ELSE c

\* variant: the command is looked up as it was typed
lower_asis(word) == word

\* command.lower()
lower(word) == [i \in 1..Len(word) |-> lower_char(word[i])]

\* command_pins of GPIO.py
command_pins ==
    (hit :> HIT_PIN) @@ (stand :> STAND_REBET_PIN) @@ (rebet :> STAND_REBET_PIN)
    @@ (double :> DOUBLE_DOWN_PIN) @@ (split :> SPLIT_DEAL_PIN)
    @@ (deal :> SPLIT_DEAL_PIN) @@ (surrender :> SURRENDER_PIN)

\* command_pins of MockGPIO.trigger_command
mock_command_pins ==
    (hit :> 17) @@ (stand :> 18) @@ (rebet :> 18) @@ (double :> 22)
    @@ (split :> 23) @@ (deal :> 23) @@ (surrender :> 24)

GpioImpls == {"GPIO", "MockGPIO"}

pins_of(impl) == IF impl = "GPIO" THEN command_pins ELSE mock_command_pins

\* GPIO.output(pin, state): the level of a pin that was set up is stored;
\* MockGPIO of gpio_mock.py only prints
output(impl, pins, pin, state) ==
    IF impl = "GPIO" /\ pin \in DOMAIN pins
    THEN [pins EXCEPT ![pin] = state]
    ELSE pins

\* the commands typed: the known ones and some others, in four spellings
Spellings == {"lower", "UPPER", "Capitalized", "aLTERNATE"}

Spelled(word, spelling) ==
    [i \in 1..Len(word) |->
        CASE spelling = "lower" -> word[i]
          [] spelling = "UPPER" -> upper_char(word[i])
          [] spelling = "Capitalized" -> IF i = 1 THEN upper_char(word[i]) ELSE word[i]
          [] spelling = "aLTERNATE" -> IF i = 1 THEN word[i] ELSE upper_char(word[i])]

KnownCommands == {hit, stand, rebet, double, split, deal, surrender}

OtherCommands == {<<>>, <<"e", "x", "i", "t">>, <<"h", "i", "t", "s">>,
                  <<"h", "i">>, <<"h", "i", "t", " ">>, <<"1", "7">>}

CommandInputs ==
    {Spelled(w, sp) : w \in KnownCommands \cup OtherCommands, sp \in Spellings}

\* for pin in set(command_pins.values()): setup(pin, OUT); output(pin, LOW)
GpioSetup ==
    /\ pin_state = [pin \in {command_pins[w] : w \in DOMAIN command_pins} |-> LOW]
    /\ gpio_pc = "idle"
    /\ gpio_impl = "GPIO"
    /\ command = <<>>
    /\ gpio_calls = <<>>

\* no game is being played by the GPIO script
GpioInit ==
    /\ pc = "no_game"
    /\ turn = 0
    /\ max_turns = NoCap
    /\ bankroll = 0
    /\ auto_wager = 0
    /\ hands = <<>>
    /\ dealer_hand = <<>>
    /\ last = "init"
    /\ token = "NONE"
    /\ bank0 = 0
    /\ settled = FALSE
    /\ stray = FALSE
    /\ dealt = 0
    /\ activity = 0
    /\ metrics = [gambler_hands |-> 0, dealer_hands |-> 0, bankrolls |-> 0]
    /\ GpioSetup

\* trigger_command up to time.sleep(duration): the pin of a known command is
\* driven HIGH; an unknown command is reported and the call returns
trigger_command(impl, cmd) ==
    /\ gpio_pc = "idle"
    /\ gpio_impl' = impl
    /\ command' = cmd
    /\ IF lower(cmd) \in DOMAIN pins_of(impl)
       THEN LET pin == pins_of(impl)[lower(cmd)]
            IN  /\ pin_state' = output(impl, pin_state, pin, HIGH)
                /\ gpio_calls' = <<<<pin, HIGH>>>>
                /\ gpio_pc' = "sleep"
       ELSE /\ gpio_calls' = <<>>
            /\ UNCHANGED <<pin_state, gpio_pc>>
    /\ UNCHANGED game_vars

\* trigger_command after the sleep: the pin is driven LOW and the call returns
trigger_release ==
    /\ gpio_pc = "sleep"
    /\ LET pin == pins_of(gpio_impl)[lower(command)]
       IN  /\ pin_state' = output(gpio_impl, pin_state, pin, LOW)
           /\ gpio_calls' = Append(gpio_calls, <<pin, LOW>>)
    /\ gpio_pc' = "idle"
    /\ UNCHANGED <<gpio_impl, command, game_vars>>

GpioNext ==
    \/ \E impl \in GpioImpls, cmd \in CommandInputs : trigger_command(impl, cmd)
    \/ trigger_release

GpioSpec == GpioInit /\ [][GpioNext]_vars

----------------------------------------------------------------------------
(* The game *)

Init ==
    /\ pc = "loop"
    /\ turn = 0
    /\ max_turns \in MaxTurnsOptions
    /\ bankroll \in StartBankrolls
    /\ auto_wager \in {w \in StartWagers : w <= bankroll}
    /\ hands = <<>>
    /\ dealer_hand = <<>>
    /\ last = "init"
    /\ token = "NONE"
    /\ bank0 = bankroll
    /\ settled = FALSE
    /\ stray = FALSE
    /\ dealt = 0
    /\ activity = 0
    /\ metrics = [gambler_hands |-> 0, dealer_hands |-> 0, bankrolls |-> 1]
    /\ GpioSetup

\* while self.play_condition(): self.turn += 1
PlayCondition ==
    /\ pc = "loop"
    /\ IF play_condition
       THEN /\ turn < TurnBound
            /\ turn' = turn + 1
            /\ pc' = "chk_start"
       ELSE /\ turn' = turn
            /\ pc' = "done"
    /\ last' = "play_condition"
    /\ bank0' = bankroll
    /\ token' = "NONE"
    /\ settled' = FALSE
    /\ activity' = IF play_condition THEN activity + 1 ELSE activity
    /\ UNCHANGED <<gpio_vars, metrics, dealt, max_turns, bankroll, auto_wager, hands, dealer_hand, stray>>

Checkpoints == {"chk_start", "chk_deal", "chk_pre", "chk_action", "chk_gambler"}

AfterCheckpoint(p) ==
    CASE p = "chk_start" -> "wager"
      [] p = "chk_deal" -> "pre_turn"
      [] p = "chk_pre" -> "gambler_turn"
      [] p = "chk_action" -> "action"
      [] p = "chk_gambler" -> "dealer_turn"

\* status_text = self.check_for_status_text(); if status_text: ...
CheckStatus(response) ==
    /\ pc \in Checkpoints
    /\ LET status_text == check_for_status_text(response)
       IN  IF status_text # "NONE"
           THEN LET r == handle_immediate_status(status_text)
                IN  /\ hands' = r.hands
                    /\ bankroll' = r.bankroll
                    /\ dealer_hand' = r.dealer_hand
                    /\ token' = status_text
                    /\ last' = "override"
                    /\ pc' = IF pc = "chk_action" THEN "gambler_turn" ELSE "finalize"
           ELSE /\ pc' = AfterCheckpoint(pc)
                /\ last' = "no_override"
                /\ UNCHANGED <<hands, bankroll, dealer_hand, token>>
    /\ activity' = (IF check_for_status_text(response) # "NONE" THEN activity + 1 ELSE activity)
    /\ UNCHANGED <<gpio_vars, metrics, dealt, turn, max_turns, auto_wager, bank0, settled, stray>>

\* variant: the turn goes on to the deal after a cash-out
AfterWager_nobreak(wager) == "deal"

\* if self.gambler.auto_wager == 0: break
AfterWager(wager) == IF wager = 0 THEN "done" ELSE "deal"

CheckGamblerWager(wants_to_change_wager) ==
    /\ pc = "wager"
    /\ LET clamped == IF ~can_place_auto_wager THEN bankroll ELSE auto_wager
       IN  IF wants_to_change_wager
           THEN /\ auto_wager' = 0
                /\ pc' = "new_wager"
           ELSE /\ auto_wager' = clamped
                /\ pc' = AfterWager(clamped)
    /\ last' = "check_gambler_wager"
    /\ activity' = (IF can_place_auto_wager THEN activity ELSE activity + 1)
    /\ UNCHANGED <<gpio_vars, metrics, dealt, turn, max_turns, bankroll, hands, dealer_hand, token, bank0,
                   settled, stray>>

\* variant: a request above the bankroll is clamped instead of asked again
SetNewAutoWager_clamp(new_auto_wager) ==
    /\ pc = "new_wager"
    /\ auto_wager' = (IF can_place_wager(new_auto_wager, bankroll)
                      THEN new_auto_wager ELSE bankroll)
    /\ pc' = AfterWager(auto_wager')
    /\ last' = "wager_set"
    /\ activity' = activity
    /\ UNCHANGED <<gpio_vars, metrics, dealt, turn, max_turns, bankroll, hands, dealer_hand, token, bank0,
                   settled, stray>>

\* one round of the loop of set_new_auto_wager
SetNewAutoWager(new_auto_wager) ==
    /\ pc = "new_wager"
    /\ IF can_place_wager(new_auto_wager, bankroll)
       THEN /\ auto_wager' = new_auto_wager
            /\ pc' = AfterWager(new_auto_wager)
            /\ last' = "wager_set"
       ELSE /\ last' = "wager_rejected"
            /\ UNCHANGED <<auto_wager, pc>>
    /\ activity' = activity
    /\ UNCHANGED <<gpio_vars, metrics, dealt, turn, max_turns, bankroll, hands, dealer_hand, token, bank0,
                   settled, stray>>

\* variant: only the lower limit is tested
get_total_input_open(total) == ~(total < MinTotal)

get_total_input(total) == ~(total < MinTotal \/ total > MaxTotal)

Deal(dealer_upcard, gambler_total) ==
    /\ pc = "deal"
    /\ IF get_total_input(gambler_total)
       THEN LET hs == Append(hands, GamblerHand(create_dummy_hand(gambler_total)))
            IN  /\ hands' = [hs EXCEPT ![1] = place_hand_wager(auto_wager, hs[1])]
                /\ bankroll' = bankroll - auto_wager
                /\ dealer_hand' = <<DealerHand(<<dealer_upcard>>)>>
                /\ pc' = "chk_deal"
                /\ last' = "deal"
                /\ dealt' = gambler_total
       ELSE /\ last' = "total_rejected"
            /\ UNCHANGED <<hands, bankroll, dealer_hand, pc, dealt>>
    /\ activity' = (IF get_total_input(gambler_total) THEN activity + 1 ELSE activity)
    /\ UNCHANGED <<gpio_vars, metrics, turn, max_turns, auto_wager, token, bank0, settled, stray>>

\* place_insurance_wager: half the hand wager moves from bankroll to the hand
place_insurance_wager(st) ==
    LET amount == st.hand.wager \div 2
    IN  [hand |-> [st.hand EXCEPT !.insurance = @ + amount],
         bankroll |-> st.bankroll - amount]

\* variant: insurance is placed whenever the strategy wants it
buy_insurance_unchecked(st, dealer_has_blackjack, wants_insurance) ==
    IF wants_insurance
    THEN LET ins == place_insurance_wager(st)
         IN  IF dealer_has_blackjack
             THEN [ins EXCEPT !.hand = set_hand_outcome(@, "Insurance Win")]
             ELSE [ins EXCEPT !.hand.lost_insurance = TRUE]
    ELSE IF dealer_has_blackjack
         THEN [st EXCEPT !.hand = set_hand_outcome(@, "Loss")]
         ELSE st

\* lines 278-311: the dealer shows an ace and the gambler has no blackjack
buy_insurance(st, dealer_has_blackjack, wants_insurance) ==
    LET gambler_can_afford_insurance == can_place_insurance_wager(st.hand, st.bankroll)
    IN  IF gambler_can_afford_insurance /\ wants_insurance
        THEN LET ins == place_insurance_wager(st)
             IN  IF dealer_has_blackjack
                 THEN [ins EXCEPT !.hand = set_hand_outcome(@, "Insurance Win")]
                 ELSE [ins EXCEPT !.hand.lost_insurance = TRUE]
        ELSE IF dealer_has_blackjack
             THEN [st EXCEPT !.hand = set_hand_outcome(@, "Loss")]
             ELSE st

\* variant: the face-card branch is missing, a ten is treated like a six
play_pre_turn_noface(gambler_hand, bank, dhand, showing_ace, showing_face, wants_even_money, wants_insurance) ==
    LET st == [hand |-> gambler_hand, bankroll |-> bank]
        gambler_has_blackjack == final_total(gambler_hand.cards) = 21
        dealer_has_blackjack == is_blackjack(dhand)
        out(s, o) == [s EXCEPT !.hand = set_hand_outcome(@, o)]
    IN  IF showing_ace
        THEN IF gambler_has_blackjack
             THEN IF wants_even_money THEN out(st, "Even Money")
                  ELSE IF dealer_has_blackjack THEN out(st, "Push")
                  ELSE out(st, "Win")
             ELSE buy_insurance(st, dealer_has_blackjack, wants_insurance)
        ELSE IF gambler_has_blackjack THEN out(st, "Win")
        ELSE st

\* the first hand and the bankroll after the pre-turn flow
play_pre_turn(gambler_hand, bank, dhand, showing_ace, showing_face, wants_even_money, wants_insurance) ==
    LET st == [hand |-> gambler_hand, bankroll |-> bank]
        gambler_has_blackjack == final_total(gambler_hand.cards) = 21
        dealer_has_blackjack == is_blackjack(dhand)
        out(s, o) == [s EXCEPT !.hand = set_hand_outcome(@, o)]
    IN  IF showing_ace
        THEN IF gambler_has_blackjack
             THEN IF wants_even_money THEN out(st, "Even Money")
                  ELSE IF dealer_has_blackjack THEN out(st, "Push")
                  ELSE out(st, "Win")
             ELSE buy_insurance(st, dealer_has_blackjack, wants_insurance)
        ELSE IF showing_face
        THEN IF dealer_has_blackjack
             THEN IF gambler_has_blackjack THEN out(st, "Push")
                  ELSE out(st, "Loss")
             ELSE IF gambler_has_blackjack THEN out(st, "Win")
                  ELSE st
        ELSE IF gambler_has_blackjack THEN out(st, "Win")
        ELSE st

\* the number of messages the pre-turn flow adds to the activity log
pre_turn_activity(gambler_hand, bank, dhand, showing_ace, showing_face, wants_even_money, wants_insurance) ==
    LET gambler_has_blackjack == final_total(gambler_hand.cards) = 21
        dealer_has_blackjack == is_blackjack(dhand)
        gambler_can_afford_insurance == can_place_insurance_wager(gambler_hand, bank)
    IN  (IF gambler_has_blackjack THEN 1 ELSE 0)
        + (IF showing_ace
           THEN 1 + (IF gambler_has_blackjack
                     THEN IF wants_even_money THEN 1 ELSE 2
                     ELSE IF gambler_can_afford_insurance /\ wants_insurance THEN 2
                     ELSE (IF gambler_can_afford_insurance THEN 0 ELSE 1)
                          + (IF dealer_has_blackjack THEN 2 ELSE 1))
           ELSE IF showing_face
           THEN 1 + (IF dealer_has_blackjack THEN 2
                     ELSE 1 + (IF gambler_has_blackjack THEN 1 ELSE 0))
           ELSE IF gambler_has_blackjack THEN 1 ELSE 0)

PlayPreTurn(wants_even_money, wants_insurance) ==
    /\ pc = "pre_turn"
    /\ LET r == play_pre_turn(hands[1], bankroll, dealer_hand[1], is_showing_ace,
                              is_showing_face_card, wants_even_money, wants_insurance)
       IN  /\ hands' = [hands EXCEPT ![1] = r.hand]
           /\ bankroll' = r.bankroll
    /\ pc' = "chk_pre"
    /\ last' = "play_pre_turn"
    /\ activity' = activity + pre_turn_activity(hands[1], bankroll, dealer_hand[1], is_showing_ace,
                                               is_showing_face_card, wants_even_money, wants_insurance)
    /\ UNCHANGED <<gpio_vars, metrics, dealt, turn, max_turns, auto_wager, dealer_hand, token, bank0,
                   settled, stray>>

AnyPending == \E i \in 1..Len(hands) : hands[i].status = "Pending"
NextPending == CHOOSE i \in 1..Len(hands) :
                   /\ hands[i].status = "Pending"
                   /\ \A j \in 1..(i - 1) : hands[j].status # "Pending"
PlayingIdx == CHOOSE i \in 1..Len(hands) : hands[i].status = "Playing"

\* top of the loop of play_gambler_hand for a hand in status Playing:
\* a single card totalling 21 is a blackjack, else go on to the checkpoint
LoopTop(hand) ==
    IF Len(hand.cards) = 1 /\ final_total(hand.cards) = 21
    THEN [hand |-> set_hand_outcome(set_hand_status(hand, "Blackjack"), "Win"),
          pc |-> "gambler_turn"]
    ELSE [hand |-> hand, pc |-> "chk_action"]

\* play_gambler_turn: the while loop over pending hands, up to the first
\* checkpoint of the hand it picks
PlayGamblerTurn ==
    /\ pc = "gambler_turn"
    /\ IF AnyPending
       THEN LET i == NextPending
                r == LoopTop(set_hand_status(hands[i], "Playing"))
            IN  /\ hands' = [hands EXCEPT ![i] = r.hand]
                /\ pc' = r.pc
       ELSE /\ pc' = "chk_gambler"
            /\ UNCHANGED hands
    /\ last' = "play_gambler_turn"
    /\ activity' = (IF last = "no_override" THEN activity + 1 ELSE activity)
    /\ UNCHANGED <<gpio_vars, metrics, dealt, turn, max_turns, bankroll, auto_wager, dealer_hand, token,
                   bank0, settled, stray>>

get_hand_options(hand, bank) ==
    {"Hit", "Stand"} \cup
    (IF Len(hand.cards) = 1 /\ can_place_wager(hand.wager, bank)
     THEN {"Double"} ELSE {})

\* variant: the total is not looked at after the action
CheckAfterAction_skip(hand) == hand

\* lines 407-413: the check of the total after an action
CheckAfterAction(hand) ==
    LET current_total == final_total(hand.cards)
    IN  IF current_total = 21 THEN set_hand_status(hand, "Stood")
        ELSE IF current_total > 21
        THEN set_hand_outcome(set_hand_status(hand, "Busted"), "Loss")
        ELSE hand

\* after the action: the check of the total, then the loop condition
AfterAction(hand) ==
    LET h == CheckAfterAction(hand)
    IN  IF h.status = "Playing" THEN LoopTop(h)
        ELSE [hand |-> h, pc |-> "gambler_turn"]

\* variant: the whole wager is deducted
handle_surrender_full(st) ==
    [hand |-> set_hand_outcome(set_hand_status(st.hand, "Surrendered"), "Surrender"),
     bankroll |-> st.bankroll - st.hand.wager]

handle_surrender(st) ==
    [hand |-> set_hand_outcome(set_hand_status(st.hand, "Surrendered"), "Surrender"),
     bankroll |-> st.bankroll - st.hand.wager \div 2]

\* the strategy's answer and the branch taken on it
\* variant: the wager is doubled but the bankroll is not charged
double_hand_free(st) ==
    [hand |-> place_hand_wager(st.hand.wager, st.hand), bankroll |-> st.bankroll]

\* double_hand, first statement: gambler.place_hand_wager(hand.wager, hand)
double_hand(st) ==
    [hand |-> place_hand_wager(st.hand.wager, st.hand),
     bankroll |-> st.bankroll - st.hand.wager]

\* variant: the split resolves the hand
split_hand_stood(hand) == set_hand_status(hand, "Stood")

\* split_hand: a message in the activity log, the hand is not touched
split_hand(hand) == hand

GamblerAction(action) ==
    /\ pc = "action"
    /\ action = "Split" => activity < MaxLog
    /\ LET i == PlayingIdx
           hand == hands[i]
           options == get_hand_options(hand, bankroll)
       IN  /\ stray' = (stray \/ (action = "Double" /\ action \notin options))
           /\ CASE action = "Hit" ->
                     /\ pc' = "hit_total"
                     /\ last' = "hit"
                     /\ UNCHANGED <<hands, bankroll>>
                [] action = "Stand" ->
                     LET r == AfterAction(set_hand_status(hand, "Stood"))
                     IN  /\ hands' = [hands EXCEPT ![i] = r.hand]
                         /\ pc' = r.pc
                         /\ last' = "stand"
                         /\ UNCHANGED bankroll
                [] action = "Double" ->
                     LET s == double_hand([hand |-> hand, bankroll |-> bankroll])
                     IN  /\ hands' = [hands EXCEPT ![i] = s.hand]
                         /\ bankroll' = s.bankroll
                         /\ pc' = "double_total"
                         /\ last' = "double"
                [] action = "Split" ->
                     LET r == AfterAction(split_hand(hand))
                     IN  /\ hands' = [hands EXCEPT ![i] = r.hand]
                         /\ pc' = r.pc
                         /\ last' = "split"
                         /\ UNCHANGED bankroll
                [] action = "Surrender" ->
                     LET s == handle_surrender([hand |-> hand, bankroll |-> bankroll])
                         r == AfterAction(s.hand)
                     IN  /\ hands' = [hands EXCEPT ![i] = r.hand]
                         /\ bankroll' = s.bankroll
                         /\ pc' = r.pc
                         /\ last' = "surrender"
                [] OTHER ->
                     /\ pc' = "crashed"
                     /\ last' = "unhandled"
                     /\ UNCHANGED <<hands, bankroll>>
    /\ activity' = (IF action \in {"Split", "Surrender"} THEN activity + 1 ELSE activity)
    /\ UNCHANGED <<gpio_vars, metrics, dealt, turn, max_turns, auto_wager, dealer_hand, token, bank0, settled>>

\* hit_hand / double_hand once the new total has been entered
NewTotal(new_total) ==
    /\ pc \in {"hit_total", "double_total"}
    /\ IF get_total_input(new_total)
       THEN LET i == PlayingIdx
                h1 == [hands[i] EXCEPT !.cards = create_dummy_hand(new_total)]
                h2 == IF pc = "double_total" THEN set_hand_status(h1, "Doubled") ELSE h1
                r == AfterAction(h2)
            IN  /\ hands' = [hands EXCEPT ![i] = r.hand]
                /\ pc' = r.pc
                /\ last' = IF pc = "double_total" THEN "double_hand" ELSE "hit_hand"
       ELSE /\ last' = "total_rejected"
            /\ UNCHANGED <<hands, pc>>
    /\ activity' = activity
    /\ UNCHANGED <<gpio_vars, metrics, dealt, turn, max_turns, bankroll, auto_wager, dealer_hand, token,
                   bank0, settled, stray>>

\* variant: a doubled hand does not count
DealerTurnNeeded_stood ==
    \E i \in 1..Len(hands) : hands[i].status = "Stood"

DealerTurnNeeded ==
    \E i \in 1..Len(hands) : hands[i].status \in {"Doubled", "Stood"}

PlayDealerTurn(dealer_total) ==
    /\ pc = "dealer_turn"
    /\ IF ~DealerTurnNeeded
       THEN /\ pc' = "settle"
            /\ last' = "no_dealer_turn"
            /\ UNCHANGED dealer_hand
       ELSE LET upcard == dealer_hand[1].cards[1]
            IN  IF dealer_total < upcard.value
                THEN /\ last' = "total_rejected"
                     /\ UNCHANGED <<dealer_hand, pc>>
                ELSE /\ dealer_hand' =
                          <<[cards |-> <<upcard, [rank |-> "Total",
                                                  value |-> dealer_total - upcard.value]>>,
                             status |-> IF dealer_total > 21 THEN "Busted" ELSE "Stood"]>>
                     /\ pc' = "settle"
                     /\ last' = "play_dealer_turn"
    /\ activity' = (IF DealerTurnNeeded
                     THEN activity + (IF last = "total_rejected" THEN 0 ELSE 1)
                             + (IF pc' = pc THEN 0 ELSE 1)
                     ELSE activity)
    /\ UNCHANGED <<gpio_vars, metrics, dealt, turn, max_turns, bankroll, auto_wager, hands, token, bank0,
                   settled, stray>>

\* the number of messages settlement adds to the activity log: one for
\* every payout of a hand, one for a forfeited or surrendered hand
RECURSIVE settle_activity(_)
settle_activity(hs) ==
    IF hs = <<>> THEN 0
    ELSE (IF Head(hs).outcome \in {"Win", "Even Money", "Insurance Win"} THEN 2 ELSE 1)
         + settle_activity(Tail(hs))

SettleUp ==
    /\ pc = "settle"
    /\ LET r == settle_up(hands, bankroll, dealer_hand[1])
       IN  /\ hands' = r.hands
           /\ bankroll' = r.bankroll
    /\ settled' = TRUE
    /\ pc' = "finalize"
    /\ last' = "settle_up"
    /\ activity' = activity + settle_activity(hands')
    /\ UNCHANGED <<gpio_vars, metrics, dealt, turn, max_turns, auto_wager, dealer_hand, token, bank0, stray>>

\* track_metrics: each gambler hand, the dealer hand, then the bankroll
\* variant: the bankroll snapshot of the turn is not appended
track_metrics_nobankroll ==
    [gambler_hands |-> metrics.gambler_hands + Len(hands),
     dealer_hands |-> metrics.dealer_hands + Len(dealer_hand),
     bankrolls |-> metrics.bankrolls]

track_metrics ==
    [gambler_hands |-> metrics.gambler_hands + Len(hands),
     dealer_hands |-> metrics.dealer_hands + Len(dealer_hand),
     bankrolls |-> metrics.bankrolls + 1]

\* variant: the hands stay on the table when the turn is finalized
FinalizeTurn_keep ==
    /\ pc = "finalize"
    /\ pc' = "loop"
    /\ last' = "finalize_turn"
    /\ dealt' = 0
    /\ metrics' = track_metrics
    /\ activity' = 0
    /\ UNCHANGED gpio_vars
    /\ UNCHANGED <<turn, max_turns, bankroll, auto_wager, hands, dealer_hand, token,
                   bank0, settled, stray>>

FinalizeTurn ==
    /\ pc = "finalize"
    /\ hands' = <<>>
    /\ dealer_hand' = <<>>
    /\ pc' = "loop"
    /\ last' = "finalize_turn"
    /\ dealt' = 0
    /\ metrics' = track_metrics
    /\ activity' = 0
    /\ UNCHANGED gpio_vars
    /\ UNCHANGED <<turn, max_turns, bankroll, auto_wager, token, bank0, settled,
                   stray>>

Next ==
    \/ PlayCondition
    \/ \E response \in StatusInputs : CheckStatus(response)
    \/ \E b \in BOOLEAN : CheckGamblerWager(b)
    \/ \E w \in WagerRequests : SetNewAutoWager(w)
    \/ \E c \in UpCards, t \in GamblerTotalInputs : Deal(c, t)
    \/ \E e \in BOOLEAN, n \in BOOLEAN : PlayPreTurn(e, n)
    \/ PlayGamblerTurn
    \/ \E a \in Actions : GamblerAction(a)
    \/ \E t \in GamblerTotalInputs : NewTotal(t)
    \/ \E t \in DealerTotalInputs : PlayDealerTurn(t)
    \/ SettleUp
    \/ FinalizeTurn

Spec == Init /\ [][Next]_vars

----------------------------------------------------------------------------
(* Pre-turn resolution and settlement as functions of the dealt hands:     *)
(* the gambler hand carries its wager, the dealer hand is the up-card      *)
(* alone or the up-card with a concealed card.                             *)

KingCard == [rank |-> "K", value |-> 10]
SixCard == [rank |-> "6", value |-> 6]
DealerDeals == {<<AceCard>>, <<AceCard, KingCard>>, <<AceCard, SixCard>>,
                <<KingCard>>, <<KingCard, AceCard>>, <<KingCard, SixCard>>,
                <<SixCard>>, <<SixCard, KingCard>>}
FnTotals == {12, 18, 21}
FnBankrolls == {0, Unit, 2 * Unit}

FnInit ==
    /\ pc = "fn_pre"
    /\ turn = 1
    /\ max_turns = NoCap
    /\ bankroll \in FnBankrolls
    /\ auto_wager \in StartWagers
    /\ dealt \in FnTotals
    /\ hands = <<place_hand_wager(auto_wager, GamblerHand(create_dummy_hand(dealt)))>>
    /\ dealer_hand \in {<<DealerHand(cs)>> : cs \in DealerDeals}
    /\ last = "init"
    /\ token = "NONE"
    /\ bank0 = bankroll + auto_wager
    /\ settled = FALSE
    /\ stray = FALSE
    /\ activity = 2
    /\ metrics = [gambler_hands |-> 0, dealer_hands |-> 0, bankrolls |-> 1]
    /\ GpioSetup

FnPreTurn(wants_even_money, wants_insurance) ==
    /\ pc = "fn_pre"
    /\ LET r == play_pre_turn(hands[1], bankroll, dealer_hand[1], is_showing_ace,
                              is_showing_face_card, wants_even_money, wants_insurance)
       IN  /\ hands' = <<r.hand>>
           /\ bankroll' = r.bankroll
           /\ pc' = IF r.hand.outcome = "None" THEN "fn_open" ELSE "fn_settle"
    /\ last' = "play_pre_turn"
    /\ activity' = activity + pre_turn_activity(hands[1], bankroll, dealer_hand[1], is_showing_ace,
                                               is_showing_face_card, wants_even_money, wants_insurance)
    /\ UNCHANGED <<gpio_vars, metrics, dealt, turn, max_turns, auto_wager, dealer_hand, token, bank0,
                   settled, stray>>

FnSettle ==
    /\ pc = "fn_settle"
    /\ LET r == settle_up(hands, bankroll, dealer_hand[1])
       IN  /\ hands' = r.hands
           /\ bankroll' = r.bankroll
    /\ settled' = TRUE
    /\ pc' = "fn_done"
    /\ last' = "settle_up"
    /\ activity' = activity + settle_activity(hands')
    /\ UNCHANGED <<gpio_vars, metrics, dealt, turn, max_turns, auto_wager, dealer_hand, token, bank0,
                   stray>>

\* an open hand stands and the dealer's final total is entered
FnStand(dealer_total) ==
    /\ pc = "fn_open"
    /\ LET upcard == dealer_hand[1].cards[1]
       IN  IF dealer_total < upcard.value
           THEN /\ last' = "total_rejected"
                /\ UNCHANGED <<hands, dealer_hand, pc>>
           ELSE /\ hands' = <<set_hand_status(hands[1], "Stood")>>
                /\ dealer_hand' =
                     <<[cards |-> <<upcard, [rank |-> "Total",
                                             value |-> dealer_total - upcard.value]>>,
                        status |-> IF dealer_total > 21 THEN "Busted" ELSE "Stood"]>>
                /\ pc' = "fn_settle"
                /\ last' = "play_dealer_turn"
    /\ activity' = activity + (IF last = "total_rejected" THEN 0 ELSE 1)
                          + (IF pc' = pc THEN 0 ELSE 1)
    /\ UNCHANGED <<gpio_vars, metrics, dealt, turn, max_turns, bankroll, auto_wager, token, bank0,
                   settled, stray>>

FnNext ==
    \/ \E e \in BOOLEAN, n \in BOOLEAN : FnPreTurn(e, n)
    \/ \E t \in DealerTotalInputs : FnStand(t)
    \/ FnSettle

FnSpec == FnInit /\ [][FnNext]_vars

----------------------------------------------------------------------------
(* Claims *)

\* C1: whenever a valid override token was handled in a turn, settlement
\* has run for that turn by the time the turn is finalized.
C1_OverrideThenSettlement ==
    (pc = "finalize" /\ token # "NONE") => settled

\* C2: handling an override token sets the gambler's first hand to exactly
\* the fixed (status, outcome) pair of the token, whatever it was before,
\* creates a hand only when there is none and changes no other hand.
C2_OverridePair ==
    [][\A tok \in Tokens :
         (pc \in Checkpoints /\ last' = "override" /\ token' = tok) =>
            LET pair == CASE tok = "BLACKJACK" -> <<"Blackjack", "Win">>
                          [] tok = "PUSH" -> <<"Stood", "Push">>
                          [] tok = "WIN" -> <<"Stood", "Win">>
                          [] tok = "BUST" -> <<"Busted", "Loss">>
                          [] tok = "SURRENDER" -> <<"Surrendered", "Surrender">>
            IN  /\ hands' # <<>>
                /\ <<hands'[1].status, hands'[1].outcome>> = pair
                /\ Len(hands') = (IF hands = <<>> THEN 1 ELSE Len(hands))
                /\ \A i \in 2..Len(hands) : hands'[i] = hands[i]]_vars

\* C2 witness: WIN handled after the gambler turn on a hand that the
\* Surrender action had already resolved (half the wager deducted).
C2_Witness ==
    /\ last = "override"
    /\ token = "WIN"
    /\ hands # <<>>
    /\ hands[1].status = "Stood"
    /\ hands[1].outcome = "Win"
    /\ hands[1].insurance = 0
    /\ hands[1].wager > 0
    /\ 2 * (bank0 - bankroll) = 3 * hands[1].wager

\* C3: a turn whose hand ends with outcome Push and no insurance leaves
\* the bankroll where it was at the start of the turn.
C3_PushReturnsWager ==
    (pc = "finalize" /\ hands # <<>> /\ hands[1].outcome = "Push"
        /\ hands[1].insurance = 0) => bankroll = bank0

\* C4: the bankroll is never negative as long as the strategy answers
\* Double only when it was offered.
C4_BankrollNonNegative ==
    ~stray => bankroll >= 0

\* C5: the Surrender action deducts exactly half the hand's wager, sets
\* status Surrendered and outcome Surrender; settling a hand with outcome
\* Surrender changes neither the bankroll nor the hand's earnings.
C5_Surrender ==
    [][/\ (pc = "action" /\ last' = "surrender") =>
            LET i == PlayingIdx
            IN  /\ 2 * (bankroll - bankroll') = hands[i].wager
                /\ hands'[i].status = "Surrendered"
                /\ hands'[i].outcome = "Surrender"
       /\ (pc = "settle" /\ pc' = "finalize") =>
            \A i \in 1..Len(hands) :
                hands[i].outcome = "Surrender" =>
                    /\ hands'[i].earnings = hands[i].earnings
                    /\ hands'[i].outcome = "Surrender"
                    /\ (Len(hands) = 1 => bankroll' = bankroll)]_vars

\* C5 witness: a hand surrendered by the action has been settled.
C5_Witness ==
    /\ last = "settle_up"
    /\ token = "NONE"
    /\ hands # <<>>
    /\ hands[1].status = "Surrendered"
    /\ hands[1].outcome = "Surrender"
    /\ hands[1].earnings = 0
    /\ hands[1].wager > 0
    /\ 2 * (bank0 - bankroll) = 3 * hands[1].wager

\* C6: a turn played without override whose hand ends with outcome
\* Surrender (no insurance, no double) costs exactly half the wager, the
\* wager committed at deal included.
C6_SurrenderCostsHalf ==
    (pc = "finalize" /\ token = "NONE" /\ hands # <<>>
        /\ hands[1].outcome = "Surrender"
        /\ hands[1].insurance = 0 /\ hands[1].wager = auto_wager)
    => 2 * (bank0 - bankroll) = hands[1].wager

\* C7 as stated: without override, a hand dealt 21 ends the turn with
\* status Blackjack and outcome Win, unless Push or Even Money.
C7_DealtBlackjackStatus ==
    (pc = "finalize" /\ token = "NONE" /\ dealt = 21) =>
        \/ hands[1].status = "Blackjack" /\ hands[1].outcome = "Win"
        \/ hands[1].outcome \in {"Push", "Even Money"}

\* C7 amended: without override, a hand dealt 21 ends the turn with
\* status Played and outcome Win, unless Push or Even Money.
C7_DealtBlackjackPlayed ==
    (pc = "finalize" /\ token = "NONE" /\ dealt = 21) =>
        \/ hands[1].status = "Played" /\ hands[1].outcome = "Win"
        \/ hands[1].outcome \in {"Push", "Even Money"}

\* C7 witness: a hand dealt 21 has been settled as a win without override.
C7_Witness ==
    /\ pc = "finalize"
    /\ token = "NONE"
    /\ dealt = 21
    /\ settled
    /\ hands[1].status = "Played"
    /\ hands[1].outcome = "Win"

\* C8: after a gambler action (Hit, Stand, Double, Surrender) a total of
\* exactly 21 leaves the hand Stood and a total over 21 leaves it Busted
\* with outcome Loss; the check applied after the action gives Busted and
\* Loss for every total over 21.
C8_TotalAfterAction ==
    [][(pc \in {"action", "hit_total", "double_total"}
          /\ last' \in {"stand", "surrender", "hit_hand", "double_hand"}) =>
            LET i == PlayingIdx
                h == hands'[i]
                t == SumValues(h.cards)
            IN  /\ t = 21 => h.status = "Stood"
                /\ t > 21 => (h.status = "Busted" /\ h.outcome = "Loss")
                /\ \A over \in 22..31 :
                     LET c == CheckAfterAction(
                                  [h EXCEPT !.cards = create_dummy_hand(over)])
                     IN  c.status = "Busted" /\ c.outcome = "Loss"]_vars

\* C8 witness: a Double that drew a total of 21 left the hand Stood.
C8_Witness ==
    /\ last = "double_hand"
    /\ hands # <<>>
    /\ SumValues(hands[1].cards) = 21
    /\ hands[1].status = "Stood"

\* C9: outcome Insurance Win is assigned by the pre-turn flow only with
\* insurance placed and a dealer blackjack; its settlement credits exactly
\* 2 * insurance plus the insurance stake and no hand wager; no other
\* outcome is paid from the insurance.
C9_InsurancePayout ==
    [][/\ (pc = "fn_pre" /\ pc' # "fn_pre"
              /\ hands'[1].outcome = "Insurance Win") =>
            /\ hands'[1].insurance > 0
            /\ 2 * hands'[1].insurance = hands'[1].wager
            /\ bankroll' = bankroll - hands'[1].insurance
            /\ Len(dealer_hand[1].cards) = 2
            /\ SumValues(dealer_hand[1].cards) = 21
       /\ (pc = "fn_settle" /\ pc' = "fn_done") =>
            LET h == hands'[1]
                db == bankroll' - bankroll
                de == h.earnings - hands[1].earnings
            IN  IF h.outcome = "Insurance Win"
                THEN db = 2 * h.insurance + h.insurance /\ de = db
                ELSE 2 * db \in {0, 2 * h.wager, 4 * h.wager, 5 * h.wager}]_vars

\* C9 witness: a hand with outcome Insurance Win has been settled.
C9_Witness ==
    /\ pc = "fn_done"
    /\ hands[1].outcome = "Insurance Win"
    /\ hands[1].insurance > 0
    /\ hands[1].earnings = 3 * hands[1].insurance
    /\ bankroll = bank0 - hands[1].wager + 2 * hands[1].insurance

\* C10: settlement adds to hand.earnings what it credits to the bankroll,
\* and that amount is the fixed table applied to the wager / insurance.
C10_PayoutTable ==
    [][(pc = "settle" /\ pc' = "finalize") =>
            /\ Len(hands) = 1 /\ Len(hands') = 1
            /\ LET h == hands'[1]
                   db == bankroll' - bankroll
                   de == h.earnings - hands[1].earnings
                   twice == CASE h.outcome = "Win" ->
                                   IF h.status = "Blackjack" \/ SumValues(h.cards) = 21
                                   THEN 3 * h.wager + 2 * h.wager
                                   ELSE 2 * h.wager + 2 * h.wager
                              [] h.outcome = "Push" -> 2 * h.wager
                              [] h.outcome = "Even Money" -> 2 * h.wager + 2 * h.wager
                              [] h.outcome = "Insurance Win" -> 4 * h.insurance + 2 * h.insurance
                              [] h.outcome = "Loss" -> 0
                              [] h.outcome = "Surrender" -> 0
               IN  de = db /\ 2 * de = twice]_vars

\* C10 witness: a win on a total of 21 has been paid 3:2 plus the wager.
C10_Witness ==
    /\ last = "settle_up"
    /\ hands # <<>>
    /\ hands[1].outcome = "Win"
    /\ hands[1].wager > 0
    /\ 2 * hands[1].earnings = 5 * hands[1].wager


C12_OutcomeByComparison ==
    [][(pc = "settle" /\ pc' = "finalize") =>
         \A i \in 1..Len(hands) :
            LET g == hands[i]
                d == dealer_hand[1]
                gt == SumValues(g.cards)
                dt == SumValues(d.cards)
                expected == IF g.status = "Busted" THEN "Loss"
                            ELSE IF d.status = "Busted" THEN "Win"
                            ELSE IF gt > dt THEN "Win"
                            ELSE IF gt = dt THEN "Push"
                            ELSE "Loss"
            IN  /\ g.outcome = "None" => hands'[i].outcome = expected
                /\ g.outcome # "None" => hands'[i].outcome = g.outcome
                /\ determine_hand_outcome(set_hand_status(g, "Busted"), d).outcome
                       = "Loss"
                /\ (g.outcome = "None" /\ g.status = "Stood" /\ gt = 18 /\ dt = 22) =>
                       /\ d.status = "Busted"
                       /\ hands'[i].outcome = "Win"
                       /\ hands'[i].earnings - g.earnings = g.wager + g.wager
                       /\ bankroll' - bankroll = g.wager + g.wager]_vars

\* C12 witness: 18 stood against a King and a dealer final total of 22.
C12_Witness ==
    /\ last = "settle_up"
    /\ token = "NONE"
    /\ hands[1].status = "Stood"
    /\ SumValues(hands[1].cards) = 18
    /\ hands[1].outcome = "Win"
    /\ hands[1].wager > 0
    /\ hands[1].earnings = 2 * hands[1].wager
    /\ dealer_hand[1].cards[1].rank = "K"
    /\ dealer_hand[1].status = "Busted"
    /\ SumValues(dealer_hand[1].cards) = 22


\* C13: in the wager-change step a request above the bankroll is rejected
\* and changes neither bankroll nor auto_wager, and the strategy is asked
\* again; a request of at most the bankroll is accepted, ends the step and
\* leaves auto_wager equal to the requested amount.
C13_WagerRequest ==
    [][\A w \in WagerRequests :
         SetNewAutoWager(w) =>
            IF w > bankroll
            THEN /\ last' = "wager_rejected"
                 /\ pc' = "new_wager"
                 /\ auto_wager' = auto_wager
                 /\ bankroll' = bankroll
                 /\ hands' = hands
            ELSE /\ last' = "wager_set"
                 /\ pc' \in {"deal", "done"}
                 /\ auto_wager' = w
                 /\ bankroll' = bankroll]_vars

\* C13 witness: a request above the bankroll has just been rejected, the
\* strategy is being asked again.
C13_Witness ==
    /\ pc = "new_wager"
    /\ last = "wager_rejected"
    /\ auto_wager = 0
    /\ bankroll > 0
    /\ bankroll = bank0


\* C14: an override handled while the gambler has no hands and the dealer
\* no hand creates exactly one gambler hand carrying the auto-wager and one
\* dealer hand; for BUST the hand is Busted with outcome Loss and the turn
\* ends with bankroll = bankroll at turn start - auto_wager.
C14_PlaceholderHands ==
    [][/\ (pc \in Checkpoints /\ last' = "override"
              /\ hands = <<>> /\ dealer_hand = <<>>) =>
            /\ Len(hands') = 1
            /\ hands'[1].wager = auto_wager
            /\ hands'[1].cards = <<>>
            /\ Len(dealer_hand') = 1
            /\ bankroll' = bankroll - auto_wager
            /\ pc' = "finalize"
            /\ token' = "BUST" =>
                 /\ hands'[1].status = "Busted"
                 /\ hands'[1].outcome = "Loss"
                 /\ bankroll' = bank0 - auto_wager
       /\ (pc = "finalize" /\ last = "override" /\ pc' = "loop") =>
            /\ bankroll' = bankroll
            /\ auto_wager' = auto_wager]_vars

\* C14 witness: BUST handled at the start of a turn, before any deal.
C14_Witness ==
    /\ pc = "finalize"
    /\ last = "override"
    /\ token = "BUST"
    /\ dealt = 0
    /\ Len(hands) = 1
    /\ hands[1].cards = <<>>
    /\ hands[1].status = "Busted"
    /\ hands[1].outcome = "Loss"
    /\ hands[1].wager = auto_wager
    /\ auto_wager > 0
    /\ bankroll = bank0 - auto_wager
    /\ dealer_hand[1].cards[1].rank = "Dummy"


\* C15: with a configured turn cap max_turns >= 0 the turn counter never
\* exceeds max_turns.
C15_TurnCap ==
    max_turns # NoCap => turn <= max_turns

\* the summary printed by render_game_over once the loop has ended
render_game_over ==
    IF auto_wager = 0 \/ turn = max_turns THEN "cashed out" ELSE "out of money"

\* C16: at termination the summary is 'out of money' when the game ended
\* because the bankroll is exhausted, and 'cashed out' when it ended by an
\* explicit cash-out or by reaching the turn cap.
C16_Summary ==
    [][(pc = "loop" /\ pc' = "done" /\ token = "NONE") =>
          render_game_over' = (IF auto_wager' # 0 /\ bankroll' = 0
                               THEN "out of money" ELSE "cashed out")]_vars


\* C17: when the wager check ends with auto_wager = 0 the game is over: no
\* gambler or dealer hand exists, the bankroll is the one the turn started
\* with, and nothing happens after the game is over.
C17_CashOut ==
    [][/\ (pc \in {"wager", "new_wager"} /\ pc' \notin {"wager", "new_wager"}
              /\ auto_wager' = 0) =>
                /\ pc' = "done"
                /\ hands' = <<>>
                /\ dealer_hand' = <<>>
                /\ bankroll' = bank0
       /\ pc = "done" => FALSE]_vars

C17_Witness ==
    /\ pc = "done"
    /\ last = "wager_set"
    /\ auto_wager = 0
    /\ hands = <<>>
    /\ dealer_hand = <<>>
    /\ bankroll = bank0
    /\ bankroll > 0


\* C18: whenever the auto-wager is placed on a hand (at deal or on the
\* placeholder hand of a status override) auto_wager <= bankroll holds.
C18_WagerCovered ==
    [][(hands = <<>> /\ hands' # <<>>) =>
          /\ auto_wager <= bankroll
          /\ hands'[1].wager = auto_wager
          /\ bankroll' >= 0]_vars


\* C19: the options offered for the hand being played always contain Hit and
\* Stand, and contain Double only while the hand still holds the total it
\* was dealt and the bankroll can match the hand's wager.
C19_Options ==
    pc = "action" =>
        LET hand == hands[PlayingIdx]
            options == get_hand_options(hand, bankroll)
        IN  /\ {"Hit", "Stand"} \subseteq options
            /\ "Double" \in options =>
                  /\ final_total(hand.cards) = dealt
                  /\ bankroll >= hand.wager


\* C20: an action the strategy returns that is not among the options offered
\* for the decision aborts the turn loop and is not applied: hands and
\* bankroll stay as they were.
C20_UnofferedAction ==
    [][LET action == CASE last' = "hit" -> "Hit"
                       [] last' = "stand" -> "Stand"
                       [] last' = "double" -> "Double"
                       [] last' = "split" -> "Split"
                       [] last' = "surrender" -> "Surrender"
                       [] OTHER -> "Other"
       IN  (pc = "action"
              /\ action \notin get_hand_options(hands[PlayingIdx], bankroll)) =>
                /\ pc' = "crashed"
                /\ hands' = hands
                /\ bankroll' = bankroll]_vars


\* C21: once a hand's outcome is set, no later step of the same turn assigns
\* a different value to it.
C21_OutcomeOnce ==
    [][\A i \in 1..Len(hands) :
          (hands[i].outcome # "None" /\ i <= Len(hands')) =>
              hands'[i].outcome = hands[i].outcome]_vars


\* C22: a status token outside BLACKJACK, PUSH, WIN, BUST, SURRENDER is no
\* override: hands, wagers, bankroll and dealer hand are unchanged and the
\* turn goes on with the step that follows the checkpoint.
C22_UnknownToken ==
    [][\A response \in StatusInputs \ (Tokens \cup {"NONE"}) :
          CheckStatus(response) =>
              /\ last' = "no_override"
              /\ hands' = hands
              /\ bankroll' = bankroll
              /\ auto_wager' = auto_wager
              /\ dealer_hand' = dealer_hand
              /\ token' = token
              /\ pc' = AfterCheckpoint(pc)]_vars

C22_Witness ==
    /\ pc = "action"
    /\ last = "no_override"
    /\ token = "NONE"
    /\ hands # <<>>


\* C23: a hand's status moves only Pending -> Playing, Pending -> Played or
\* Playing -> {Stood, Doubled, Busted, Blackjack, Surrendered}; a terminal
\* status does not change again during the turn.
C23_StatusPath ==
    [][\A i \in 1..Len(hands) :
          (i <= Len(hands') /\ hands'[i].status # hands[i].status) =>
              \/ hands[i].status = "Pending"
                   /\ hands'[i].status \in {"Playing", "Played"}
              \/ hands[i].status = "Playing"
                   /\ hands'[i].status \in
                        {"Stood", "Doubled", "Busted", "Blackjack", "Surrendered"}]_vars


\* C24: a hand whose outcome is set never has status Pending or Playing.
C24_OutcomeTerminal ==
    \A i \in 1..Len(hands) :
        hands[i].outcome # "None" => hands[i].status \notin {"Pending", "Playing"}

\* a dealt 21 resolved before the gambler turn: outcome set, status Played
C24_Witness ==
    /\ pc = "chk_pre"
    /\ hands # <<>>
    /\ hands[1].outcome \in {"Win", "Even Money"}
    /\ hands[1].status = "Played"

\* C25: a hand whose outcome is Win has status Blackjack or Stood.
C25_WinStatus ==
    \A i \in 1..Len(hands) :
        hands[i].outcome = "Win" => hands[i].status \in {"Blackjack", "Stood"}


\* C25 (amended): a hand whose outcome is Win has status Blackjack, Stood,
\* Doubled or Played.
C25_WinStatusTerminal ==
    \A i \in 1..Len(hands) :
        hands[i].outcome = "Win" =>
            hands[i].status \in {"Blackjack", "Stood", "Doubled", "Played"}

\* a doubled hand that beat the dealer
C25_Witness ==
    /\ pc = "finalize"
    /\ last = "settle_up"
    /\ hands # <<>>
    /\ hands[1].outcome = "Win"
    /\ hands[1].status = "Doubled"


\* C26: once the auto-wager is on a hand, hand.wager changes only by the
\* Double action, which adds the current wager to it and takes the same
\* amount from the bankroll; every other step of the turn leaves it alone.
C26_WagerFrame ==
    [][\A i \in 1..Len(hands) :
          i <= Len(hands') =>
              IF last' = "double" /\ hands[i].status = "Playing"
              THEN /\ hands'[i].wager = 2 * hands[i].wager
                   /\ bankroll' = bankroll - hands[i].wager
              ELSE hands'[i].wager = hands[i].wager]_vars

C26_Witness ==
    /\ pc = "finalize"
    /\ last = "settle_up"
    /\ hands # <<>>
    /\ hands[1].status = "Doubled"
    /\ hands[1].wager = 2 * auto_wager


\* C27: after a status override during the gambler turn no further hand
\* action is requested and no dealer final total is requested in that turn.
C27_OverrideSkipsDealer ==
    [][token # "NONE" =>
          /\ pc' \notin {"action", "hit_total", "double_total"}
          /\ last' # "play_dealer_turn"]_vars


\* C28: the dealer turn leaves the dealer hand unchanged when no gambler
\* hand is Doubled or Stood; otherwise an accepted final total turns the
\* dealer hand into the up-card plus one card worth the total minus the
\* up-card's value, with status Busted above 21 and Stood otherwise.
C28_DealerTurn ==
    [][\A dealer_total \in DealerTotalInputs :
          PlayDealerTurn(dealer_total) =>
              LET upcard == dealer_hand[1].cards[1]
              IN  IF \A i \in 1..Len(hands) : hands[i].status \notin {"Doubled", "Stood"}
                  THEN dealer_hand' = dealer_hand /\ pc' = "settle"
                  ELSE IF dealer_total < upcard.value
                  THEN dealer_hand' = dealer_hand /\ pc' = pc
                  ELSE /\ Len(dealer_hand'[1].cards) = 2
                       /\ dealer_hand'[1].cards[1] = upcard
                       /\ dealer_hand'[1].cards[2].value = dealer_total - upcard.value
                       /\ dealer_hand'[1].status =
                              (IF dealer_total > 21 THEN "Busted" ELSE "Stood")
                       /\ pc' = "settle"]_vars

C28_Witness ==
    /\ pc = "settle"
    /\ last = "play_dealer_turn"
    /\ hands[1].status = "Doubled"
    /\ Len(dealer_hand[1].cards) = 2
    /\ dealer_hand[1].cards[1].value + dealer_hand[1].cards[2].value = 22
    /\ dealer_hand[1].status = "Busted"


\* C29: with an up-card that is not an ace the pre-turn never takes
\* insurance or even money; a dealer blackjack behind a ten-value up-card
\* gives Push to a gambler 21 and Loss otherwise; with no dealer blackjack a
\* gambler 21 gives Win; in every other case the hand stays Pending with no
\* outcome.
C29_PreTurnNoAce ==
    [][\A wants_even_money \in BOOLEAN, wants_insurance \in BOOLEAN :
          (FnPreTurn(wants_even_money, wants_insurance)
              /\ dealer_hand[1].cards[1].rank # "A") =>
              LET upcard == dealer_hand[1].cards[1]
                  dealer_blackjack == /\ Len(dealer_hand[1].cards) = 2
                                      /\ SumValues(dealer_hand[1].cards) = 21
                  hand == hands'[1]
              IN  /\ hand.insurance = 0
                  /\ ~hand.lost_insurance
                  /\ bankroll' = bankroll
                  /\ hand.wager = hands[1].wager
                  /\ IF upcard.value = 10 /\ dealer_blackjack
                     THEN hand.outcome = (IF dealt = 21 THEN "Push" ELSE "Loss")
                     ELSE IF dealt = 21
                     THEN hand.outcome = "Win"
                     ELSE hand.outcome = "None" /\ hand.status = "Pending"]_vars

\* a dealer blackjack behind a king beats a gambler hand that is not 21
C29_Witness ==
    /\ pc = "fn_settle"
    /\ last = "play_pre_turn"
    /\ dealer_hand[1].cards = <<KingCard, AceCard>>
    /\ dealt # 21
    /\ hands[1].outcome = "Loss"


\* C30: the pre-turn places insurance exactly when the up-card is an ace,
\* the gambler's total is not 21, the bankroll covers half the wager and the
\* strategy wants it.  With insurance a dealer blackjack gives Insurance
\* Win, else lost_insurance is set and the hand stays Pending; without
\* insurance a dealer blackjack behind the ace gives Loss, else the hand
\* stays Pending.  A lost insurance stake is not paid back at settlement.
C30_Insurance ==
    [][/\ \A wants_even_money \in BOOLEAN, wants_insurance \in BOOLEAN :
            FnPreTurn(wants_even_money, wants_insurance) =>
                LET upcard == dealer_hand[1].cards[1]
                    dealer_blackjack == /\ Len(dealer_hand[1].cards) = 2
                                        /\ SumValues(dealer_hand[1].cards) = 21
                    stake == hands[1].wager \div 2
                    placed == /\ upcard.rank = "A"
                              /\ dealt # 21
                              /\ bankroll >= stake
                              /\ wants_insurance
                    hand == hands'[1]
                IN  /\ hand.insurance = (IF placed THEN stake ELSE 0)
                    /\ bankroll' = bankroll - hand.insurance
                    /\ hand.lost_insurance = (placed /\ ~dealer_blackjack)
                    /\ (upcard.rank = "A" /\ dealt # 21) =>
                           IF dealer_blackjack
                           THEN hand.outcome =
                                    (IF placed THEN "Insurance Win" ELSE "Loss")
                           ELSE hand.outcome = "None" /\ hand.status = "Pending"
       /\ (pc = "fn_settle" /\ pc' = "fn_done" /\ hands[1].lost_insurance) =>
            /\ hands'[1].insurance = hands[1].insurance
            /\ bankroll' = bank0 - hands[1].wager - hands[1].insurance
                           + (CASE hands'[1].outcome = "Win" -> 2 * hands[1].wager
                                [] hands'[1].outcome = "Push" -> hands[1].wager
                                [] OTHER -> 0)]_vars

\* an insurance stake was lost and the hand then won against the dealer
C30_Witness ==
    /\ pc = "fn_done"
    /\ hands[1].lost_insurance
    /\ hands[1].insurance > 0
    /\ hands[1].outcome = "Win"
    /\ bankroll = bank0 + hands[1].wager - hands[1].insurance


\* C31: a turn is left for the next one only through finalize_turn; between
\* turns the gambler has no hands, the dealer has no hand and the activity
\* log is empty; the hand created by a deal is the only hand, has no
\* outcome, no insurance, no earnings and carries exactly the auto-wager.
C31_FreshTurn ==
    [][/\ (pc # "loop" /\ pc' = "loop") => (pc = "finalize" /\ last' = "finalize_turn")
       /\ pc' = "loop" => (hands' = <<>> /\ dealer_hand' = <<>> /\ activity' = 0)
       /\ (pc = "loop" /\ pc' = "chk_start") =>
              (hands' = <<>> /\ dealer_hand' = <<>> /\ activity' = 1)
       /\ last' = "deal" =>
              /\ Len(hands') = 1
              /\ hands'[1].outcome = "None"
              /\ hands'[1].status = "Pending"
              /\ hands'[1].insurance = 0
              /\ ~hands'[1].lost_insurance
              /\ hands'[1].earnings = 0
              /\ hands'[1].wager = auto_wager
              /\ Len(dealer_hand') = 1
              /\ Len(dealer_hand'[1].cards) = 1]_vars

\* the deal of a second turn, after a first turn that was won
C31_Witness ==
    /\ turn = 2
    /\ last = "deal"
    /\ metrics.gambler_hands = 1
    /\ bank0 > 2 * Unit
    /\ Len(hands) = 1
    /\ hands[1].wager = auto_wager
    /\ hands[1].earnings = 0
    /\ activity = 2


\* C32: a gambler total outside [4, 21] at the deal, after a hit or after a
\* double, and a dealer final total below the up-card's value, are rejected
\* and asked for again with hands, dealer hand, wagers and bankroll
\* unchanged; every total stored in a gambler hand lies in [4, 21] and
\* every dealer total used is at least the up-card's value.
C32_TotalsValidated ==
    [][/\ \A t \in GamblerTotalInputs \ (MinTotal..MaxTotal) :
            /\ \A c \in UpCards :
                   Deal(c, t) => (last' = "total_rejected" /\ pc' = pc
                                    /\ UNCHANGED <<hands, dealer_hand, bankroll, auto_wager>>)
            /\ NewTotal(t) => (last' = "total_rejected" /\ pc' = pc
                                 /\ UNCHANGED <<hands, dealer_hand, bankroll, auto_wager>>)
       /\ \A t \in DealerTotalInputs :
            (PlayDealerTurn(t) /\ last' # "no_dealer_turn"
                /\ t < dealer_hand[1].cards[1].value) =>
                   (last' = "total_rejected" /\ pc' = pc
                      /\ UNCHANGED <<hands, dealer_hand, bankroll, auto_wager>>)
       /\ \A i \in 1..Len(hands') :
            hands'[i].cards # <<>> =>
                SumValues(hands'[i].cards) \in MinTotal..MaxTotal
       /\ last' = "play_dealer_turn" =>
            SumValues(dealer_hand'[1].cards) >= dealer_hand[1].cards[1].value]_vars

\* a total above 21 was entered after a hit and refused
C32_Witness ==
    /\ pc = "hit_total"
    /\ last = "total_rejected"
    /\ SumValues(hands[1].cards) = dealt


\* C33: Split adds one message to the activity log and nothing else: the
\* hands (status Playing, cards, wager, outcome), the dealer hand and the
\* bankroll are unchanged, nothing is raised and the next decision of the
\* same hand follows.
C33_SplitNoOp ==
    [][(pc = "action" /\ last' = "split") =>
          /\ hands' = hands
          /\ hands'[PlayingIdx].status = "Playing"
          /\ hands'[PlayingIdx].outcome = "None"
          /\ bankroll' = bankroll
          /\ auto_wager' = auto_wager
          /\ dealer_hand' = dealer_hand
          /\ activity' = activity + 1
          /\ pc' = "chk_action"]_vars

C33_Witness ==
    /\ pc = "chk_action"
    /\ last = "split"
    /\ activity >= 4
    /\ hands[1].status = "Playing"
    /\ hands[1].outcome = "None"
    /\ SumValues(hands[1].cards) = dealt


\* C34: Stand, Surrender and an accepted total after Double take the hand
\* out of status Playing in the same step (Stood; Surrendered; Doubled, or
\* Stood for a total of 21) and end the playing of the hand; a Hit keeps
\* the hand Playing exactly when the new total is below 21; a decision or
\* a total is asked for only while the hand is Playing.
C34_HandEnds ==
    [][/\ pc \in {"action", "hit_total", "double_total"} =>
            LET i == PlayingIdx
                new_total == SumValues(hands'[i].cards)
            IN  /\ hands[i].status = "Playing"
                /\ last' = "stand" =>
                      (hands'[i].status = "Stood" /\ pc' = "gambler_turn")
                /\ last' = "surrender" =>
                      (hands'[i].status = "Surrendered" /\ pc' = "gambler_turn")
                /\ last' = "double" =>
                      (hands'[i].status = "Playing" /\ pc' = "double_total")
                /\ last' = "double_hand" =>
                      /\ hands'[i].status = (IF new_total = 21 THEN "Stood" ELSE "Doubled")
                      /\ pc' = "gambler_turn"
                /\ last' = "hit_hand" =>
                      /\ hands'[i].status = (IF new_total < 21 THEN "Playing" ELSE "Stood")
                      /\ pc' = (IF new_total < 21 THEN "chk_action" ELSE "gambler_turn")
       /\ pc' \in {"chk_action", "action", "hit_total", "double_total"} =>
            \E i \in 1..Len(hands') : hands'[i].status = "Playing"]_vars

\* a double that drew 21: the hand is forced to Stood
C34_Witness ==
    /\ pc = "gambler_turn"
    /\ last = "double_hand"
    /\ hands[1].status = "Stood"
    /\ hands[1].wager = 2 * auto_wager


C36_BustOnlyByOverride ==
    \A i \in 1..Len(hands) : hands[i].status = "Busted" => token = "BUST"

\* a hand was hit to the highest total and the turn went on with no override
C36_Witness ==
    /\ pc = "settle"
    /\ token = "NONE"
    /\ dealt < 21
    /\ SumValues(hands[1].cards) = 21
    /\ hands[1].status = "Stood"


\* C37: in the normal flow the pre-turn can find a dealer blackjack: before
\* the first turn, for some affordable wager, up-card, gambler total and
\* answers of the strategy, the pre-turn applied to the hands as deal()
\* leaves them gives Insurance Win, for some it gives Push, and for some it
\* gives Loss.
C37_DealerBlackjackFound ==
    turn = 0 =>
    \A outcome \in {"Insurance Win", "Push", "Loss"} :
        \E dealer_upcard \in UpCards, gambler_total \in MinTotal..MaxTotal,
           wager \in {w \in StartWagers : w <= bankroll},
           wants_even_money \in BOOLEAN, wants_insurance \in BOOLEAN :
            LET hand == place_hand_wager(wager,
                                         GamblerHand(create_dummy_hand(gambler_total)))
                dhand == DealerHand(<<dealer_upcard>>)
                bank == bankroll - wager
            IN  play_pre_turn(hand, bank, dhand, dealer_upcard.rank = "A",
                              dealer_upcard.value = 10, wants_even_money,
                              wants_insurance).hand.outcome = outcome


C39_TriggerCommand ==
    [][/\ gpio_pc' = "idle" => \A pin \in DOMAIN pin_state' : pin_state'[pin] = LOW
       /\ \A impl \in GpioImpls, sp \in Spellings :
            /\ \A m \in {<<hit, 17>>, <<stand, 18>>, <<rebet, 18>>, <<double, 22>>,
                         <<split, 23>>, <<deal, 23>>, <<surrender, 24>>} :
                 trigger_command(impl, Spelled(m[1], sp)) =>
                    /\ gpio_pc' = "sleep"
                    /\ gpio_calls' = <<<<m[2], HIGH>>>>
                    /\ impl = "GPIO" => pin_state' = [pin_state EXCEPT ![m[2]] = HIGH]
                    /\ impl = "MockGPIO" => pin_state' = pin_state
            /\ \A w \in OtherCommands :
                 trigger_command(impl, Spelled(w, sp)) =>
                    /\ gpio_pc' = "idle"
                    /\ gpio_calls' = <<>>
                    /\ pin_state' = pin_state
       /\ trigger_release =>
            LET pin == gpio_calls[1][1]
            IN  /\ gpio_calls' = <<<<pin, HIGH>>, <<pin, LOW>>>>
                /\ pin_state' = [pin_state EXCEPT ![pin] = LOW]
                /\ gpio_impl = "GPIO" => pin_state[pin] = HIGH]_vars

C39_Witness ==
    /\ gpio_pc = "idle" /\ gpio_impl = "GPIO"
    /\ command = <<"R", "E", "B", "E", "T">>
    /\ gpio_calls = <<<<18, HIGH>>, <<18, LOW>>>>
    /\ \A pin \in {17, 18, 22, 23, 24} : pin_state[pin] = LOW

====
